---- MODULE Spec2Model ----
(***************************************************************************)
(* Model of qimpy's block Davidson eigensolver                             *)
(* (src/src/qimpy/electrons/_davidson.py, class Davidson).                 *)
(*                                                                         *)
(* One Davidson object is constructed over an electrons object and called  *)
(* once.  The orbital block C is represented by its number of bands; the   *)
(* eigenvalues E and their changes dE are kept for every distributed       *)
(* partition (a process of comm_kb) and every (spin, k-point) row of that  *)
(* partition, in integer units.  The external primitives (torch.linalg.eigh *)
(* and qp.utils.eighg) return an arbitrary ascending eigenvalue sequence.  *)
(* A collective reduction is one step taken by all partitions together.    *)
(* The overlap of C and the matrix operations applied to C and HC are kept  *)
(* symbolically.  Davidson._regularize is modelled on its own, on the band  *)
(* norms of the processes of one basis-split group (RegSpec).              *)
(***************************************************************************)
EXTENDS Integers, Sequences, FiniteSets, TLC

\* ------------------------------------------------------------- bounds
MaxBands == 2       \* n_bands ranges over 1..MaxBands
MaxExtra == 1       \* n_bands_extra ranges over 0..MaxExtra
MaxBasis == 5       \* basis.n_min ranges over 1..MaxBasis
MaxE == 2           \* eigenvalues range over 0..MaxE
MaxIter == 2        \* the constructor's budget; overrides range below it
MaxThreshold == 2   \* the relaxed eig_threshold an inner loop passes
NProcs == 2         \* partitions of comm_kb
NRows == 1          \* (spin, k-point) rows held by one partition
NProcsB == 2        \* rc.n_procs_b ranges over 1..NProcsB
NCells == 2         \* (spin, k, band) entries of norm in _regularize
MaxNorm == 4        \* band norms range over 0..MaxNorm
NormSlack == 1      \* how far redundant copies of one norm may differ

Procs == 1..NProcs
Rows == 1..NRows
Cells == 1..NCells

\* ------------------------------------------------------------- helpers
\* Python's None and a given value, for an optional argument
None == <<>>
Some(v) == <<v>>
Opt(S) == {None} \cup {Some(v) : v \in S}

\* Python truthiness of an optional number: None and 0 are falsy
Truthy(x) == x # None /\ x[1] # 0

Min2(a, b) == IF a <= b THEN a ELSE b
Max2(a, b) == IF a >= b THEN a ELSE b
SetMin(S) == CHOOSE x \in S : \A y \in S : x <= y
SetMax(S) == CHOOSE x \in S : \A y \in S : x >= y
Abs(x) == IF x >= 0 THEN x ELSE -x

RECURSIVE SumSeq(_)
SumSeq(s) == IF s = <<>> THEN 0 ELSE Head(s) + SumSeq(Tail(s))

RECURSIVE SumOver(_, _)
SumOver(S, f) ==
    IF S = {} THEN 0
    ELSE LET x == CHOOSE y \in S : TRUE IN f[x] + SumOver(S \ {x}, f)

\* s[..., :n]: the first n entries (all of s when it is shorter)
Prefix(s, n) == SubSeq(s, 1, Min2(n, Len(s)))

\* ascending eigenvalue sequences of length n
AscSeqs(n) == {s \in [1..n -> 0..MaxE] : \A i \in 1..(n - 1) : s[i] <= s[i + 1]}

\* one ascending sequence per partition and row
Spectra(n) == [Procs -> [Rows -> AscSeqs(n)]]

\* torch.linalg.eigh on an n x n subspace matrix: n ascending eigenvalues
eigh(n) == Spectra(n)

\* qp.utils.eighg on an n x n problem, of which the caller reads the first
\* `read` eigenvalues: the prefixes of the ascending sequences of length n
\* are exactly the ascending sequences of length read
eighg(n, read) == Spectra(Min2(n, read))

NoSpectrum == [p \in Procs |-> [r \in Rows |-> <<>>]]

VARIABLES
    n_bands,            \* electrons.n_bands
    n_bands_extra,      \* electrons.n_bands_extra
    n_min,              \* electrons.basis.n_min
    n_procs_b,          \* rc.n_procs_b: processes of one basis-split group
    self_n_iterations,  \* Davidson.n_iterations (constructor)
    self_eig_threshold, \* Davidson.eig_threshold (constructor)
    electrons_C,        \* electrons.C: None or <<number of bands>>
    electrons_E,        \* electrons.E: None or <<eigenvalues>>
    pc,                 \* position of the call
    arg_n_iterations,   \* argument n_iterations as passed (optional)
    arg_eig_threshold,  \* argument eig_threshold as passed (optional)
    helper,             \* argument
    overridden,         \* whether n_iterations or eig_threshold was passed
    n_iterations,       \* the name n_iterations once line 109 has rebound it
    eig_threshold,      \* the name eig_threshold once line 110 has rebound it
    inner_loop,         \* local
    C,                  \* local: number of bands of the block C (and of HC)
    E,                  \* local: eigenvalues per partition and row
    dE,                 \* local: eigenvalue changes per partition and row
    Eband,              \* local, per partition
    i_iter,             \* loop index (0 before the loop)
    n_eigs_done,        \* local, per partition
    deig_max,           \* local, per partition (None before the first iteration)
    converged,          \* local, per partition
    converge_failed,    \* local, per partition
    log,                \* lines given to qp.log.info
    n_apply,            \* number of electrons.hamiltonian applications
    H_applied,          \* the blocks electrons.hamiltonian was applied to
    C_rot,              \* the matrix operations applied to C, in order
    HC_rot,             \* the matrix operations applied to HC, in order
    C_gram,             \* overlap of the block C: "identity" or "other"
    Cexp,               \* local: number of bands of the latest Cexp
    coll,               \* per partition: collectives issued in the last step
    norm_measured,      \* _regularize: norm as each process computed it
    norm,               \* _regularize: the buffer norm of each process
    low_norm,           \* _regularize: per process, the entries selected
    randomized,         \* per process: None or <<entries, seed>>
    Cexp_scale,         \* per process and entry: 1/norm after line 138
    reg_pc,             \* position of each process in _regularize
    result              \* how the call ended: None, the error, or the return value

vars == <<n_bands, n_bands_extra, n_min, self_n_iterations, self_eig_threshold,
          electrons_C, electrons_E, pc, arg_n_iterations, arg_eig_threshold,
          helper, n_iterations, eig_threshold, inner_loop, C, E, dE, Eband,
          i_iter, n_eigs_done, deig_max,
          converged, converge_failed, log, n_apply, H_applied, C_rot, HC_rot,
          C_gram, Cexp, overridden, result, n_procs_b, coll, norm_measured, norm, low_norm,
          randomized, Cexp_scale, reg_pc>>

algebra == <<H_applied, C_rot, HC_rot, C_gram>>
config == <<n_bands, n_bands_extra, n_min, self_n_iterations,
            self_eig_threshold, n_procs_b>>
regularize == <<norm_measured, norm, low_norm, randomized, Cexp_scale, reg_pc>>
davidson == <<n_bands, n_bands_extra, n_min, n_procs_b, self_n_iterations,
              self_eig_threshold, electrons_C, electrons_E, arg_n_iterations,
              arg_eig_threshold, helper, n_iterations, eig_threshold,
              inner_loop, C, E, dE, Eband, n_eigs_done, deig_max, converged,
              converge_failed, log, n_apply, H_applied, C_rot, HC_rot, C_gram,
              Cexp, overridden, result, coll>>
args == <<arg_n_iterations, arg_eig_threshold, helper, overridden>>

\* ------------------------------------------------- program constants
\* the constructor's default eig_threshold (1E-8), in the model's units
eig_threshold_default == 1

\* electrons.w_spin and electrons.basis.wk: the externally supplied weights
w_spin == 1
wk(p, r) == p

\* ------------------------------------------------- collectives
\* comm.allreduce(x, op): every partition receives the reduction of all
\* partitions' local values
allreduce_MAX(local) == [p \in Procs |-> SetMax({local[q] : q \in Procs})]
\* MPI.MAX passed where MPI.MIN is meant
allreduce_MIN_as_MAX(local) ==
    [p \in Procs |-> SetMax({local[q] : q \in Procs})]

\* the reduction left out: every partition keeps its local value
allreduce_MIN_unreduced(local) == local

allreduce_MIN(local) == [p \in Procs |-> SetMin({local[q] : q \in Procs})]
allreduce_SUM(local) == [p \in Procs |-> SumOver(Procs, local)]

\* ------------------------------------------------- Davidson._get_Eband
\* the slice [..., :n_bands] left out: the extra bands summed as well
Eband_local_all_bands(Ecur, p) ==
    SumOver(Rows, [r \in Rows |-> w_spin * wk(p, r) * SumSeq(Ecur[p][r])])

\* lines 84-85 on partition p: the weighted sum of its first n_bands bands
Eband_local(Ecur, p) ==
    SumOver(Rows, [r \in Rows |->
        w_spin * wk(p, r) * SumSeq(Prefix(Ecur[p][r], n_bands))])

get_Eband(Ecur) == allreduce_SUM([p \in Procs |-> Eband_local(Ecur, p)])

\* ------------------------------------------------- Davidson._check_deigs
\* dE.max() without the [..., :n_bands] slice
deig_max_local_all_bands(d, p) ==
    SetMax({d[p][r][b] : r \in Rows, b \in 1..Len(d[p][1])})

\* dE[..., :n_bands].max() on partition p
deig_max_local(d, p) ==
    SetMax({d[p][r][b] : r \in Rows, b \in 1..Min2(n_bands, Len(d[p][1]))})

\* >= written for > in the pending test
eigs_pending_at_threshold(d, threshold, p) ==
    {b - 1 : b \in {c \in 1..Min2(n_bands, Len(d[p][1])) :
                        \E r \in Rows : d[p][r][c] >= threshold}}

\* torch.where((dE[..., :n_bands] > eig_threshold).flatten(0, 1).any(dim=0))[0]
\* on partition p: the (0-based) band indices pending on some row
eigs_pending(d, threshold, p) ==
    {b - 1 : b \in {c \in 1..Min2(n_bands, Len(d[p][1])) :
                        \E r \in Rows : d[p][r][c] > threshold}}

\* eigs_pending[0].item() if len(eigs_pending) else n_bands
n_eigs_done_local(d, threshold, p) ==
    IF eigs_pending(d, threshold, p) # {}
    THEN SetMin(eigs_pending(d, threshold, p))
    ELSE n_bands

\* the MAX reduction left out: each partition keeps its own largest change
check_deigs_max_unreduced(d) == [p \in Procs |-> deig_max_local(d, p)]

check_deigs_max(d) == allreduce_MAX([p \in Procs |-> deig_max_local(d, p)])

check_deigs_done(d, threshold) ==
    allreduce_MIN([p \in Procs |-> n_eigs_done_local(d, threshold, p)])

\* ------------------------------------------------- collectives issued
\* lines 68-70: the broadcast is issued when the basis is split, ahead of the
\* test for low-norm bands of line 73
regularize_collectives == IF n_procs_b > 1 THEN <<"Bcast">> ELSE <<>>

\* lines 83-85
get_Eband_collectives == <<"SUM">>

\* the MIN reduction issued only by a partition with a pending eigenvalue
check_deigs_collectives_when_pending(d, threshold, p) ==
    <<"MAX">> \o (IF eigs_pending(d, threshold, p) # {} THEN <<"MIN">>
                  ELSE <<>>)

\* lines 91-97 on partition p: the test len(eigs_pending) of line 96 chooses
\* the value reduced, not whether the reduction is issued
check_deigs_collectives(d, threshold, p) == <<"MAX", "MIN">>

\* ------------------------------------------------- Davidson._regularize
\* self._norm_cut and the nominal norm 1. of line 78, in the model's units
norm_cut == 2
nominal_norm == 4

\* the processes of one basis-split group, and the root of comm_b.Bcast
BProcs == 1..n_procs_b
root == 1

\* the broadcast left out: every process keeps the norm it computed
Bcast_unissued(buf) == buf

\* comm_b.Bcast(buf): every process receives the root's buffer
Bcast(buf) == [q \in DOMAIN buf |-> buf[root]]

\* only exactly-zero norms selected
where_zero_norm(nrm) == {c \in Cells : nrm[c] = 0}

\* lines 71-72: torch.where(norm < self._norm_cut)
where_low_norm(nrm) == {c \in Cells : nrm[c] < norm_cut}

\* line 138: 1./norm_exp, infinite for a zero norm
reciprocal(x) == IF x = 0 THEN "inf" ELSE "finite"

\* ------------------------------------------------- external failures
\* the primitives called inside the loop body (lines 154 and 166)
Primitives == {"hamiltonian", "eighg"}

\* the exception as the caller of __call__ receives it: no handler between
propagated(e) == [kind |-> "PrimitiveError", error |-> e]

\* ------------------------------------------------- Davidson._report
\* The lines one call of _report gives to the log.  A progress line is
\* recorded with the fields it prints; deig_max and n_eigs_done are optional.
progress_fields(deig, n_done) ==
    {"iteration", "Eband", "t"}
        \cup (IF Truthy(deig) THEN {"deig_max"} ELSE {})
        \cup (IF Truthy(n_done) THEN {"n_eigs_done"} ELSE {})

\* the progress line kept out of the log for an inner-loop call
report_quiet_inner(iteration, deig, n_done, inner, conv, failed) ==
    (IF inner THEN <<>>
     ELSE <<[kind |-> "progress", inner |-> inner, iteration |-> iteration,
             fields |-> progress_fields(deig, n_done)]>>)
        \o (IF conv THEN <<[kind |-> "Converged", inner |-> inner]>> ELSE <<>>)
        \o (IF failed THEN <<[kind |-> "Failed to converge", inner |-> inner]>>
            ELSE <<>>)

report(iteration, deig, n_done, inner, conv, failed) ==
    <<[kind |-> "progress", inner |-> inner, iteration |-> iteration,
       fields |-> progress_fields(deig, n_done)]>>
        \o (IF conv THEN <<[kind |-> "Converged", inner |-> inner]>> ELSE <<>>)
        \o (IF failed THEN <<[kind |-> "Failed to converge", inner |-> inner]>>
            ELSE <<>>)

\* ------------------------------------------------- Davidson.__call__
n_bands_max == n_bands + n_bands_extra

\* >= of the basis-size test written as >
basis_too_small_above_only == 2 * n_bands_max > n_min

\* the factor 2 of the basis-size test left out
basis_too_small_no_factor == n_bands_max >= n_min

\* the basis-size test of line 113
basis_too_small == 2 * n_bands_max >= n_min

\* the truncation to n_bands_max left out
n_bands_next_untruncated(n_bands_new) == n_bands_new

\* number of bands retained after an iteration (line 167)
n_bands_next(n_bands_new) == Min2(n_bands_new, n_bands_max)

\* range(1, n_iterations + 2): one iteration too many
loop_continues_one_more == i_iter < n_iterations + 1

\* for i_iter in range(1, n_iterations + 1): another iteration is due
loop_continues == i_iter < n_iterations

\* the test i_iter == n_iterations left out
converge_failed_every_iteration(iteration, conv) ==
    ~(inner_loop \/ helper \/ conv)

\* the failure flagged at the last iteration whether converged or not
converge_failed_ignoring_converged(iteration, conv) ==
    (iteration = n_iterations) /\ ~(inner_loop \/ helper)

\* line 185-186, on a partition whose converged flag is conv
converge_failed_at(iteration, conv) ==
    (iteration = n_iterations) /\ ~(inner_loop \/ helper \/ conv)

\* the head process, whose qp.log.info lines reach the log
head == 1

\* E cut to the requested bands: E_new[..., :n_bands]
E_next_requested_only(E_new, n) == Prefix(E_new, Min2(n, n_bands))

\* line 179: E = E_new[..., :n_bands_next]
E_next(E_new, n) == Prefix(E_new, n)

\* the converged bands expanded as well
expansion_width_all_bands == C

\* lines 130-139: Cexp has the bands of C_sel = C[:, :, n_eigs_done:]
expansion_width == C - n_eigs_done[head]

\* X = X @ V (lines 119, 120, 172, 175), recorded on the operations of X
matmul(ops, V) == Append(ops, <<"@", V>>)

\* the expansion term of HC dropped
add_matmul_dropped(ops, Y, V) == ops

\* X += Y @ V (lines 173, 176), recorded on the operations of X
add_matmul(ops, Y, V) == Append(ops, <<"+=", Y, V>>)

\* the overlap of C @ V for the unitary V of torch.linalg.eigh (line 119):
\* V^H G V, which is the identity exactly when G is
gram_rotated(gram) == gram

\* the current-band block of C_OC_new left at zero (line 148 missing)
C_OC_zero == "zero"

\* line 142: the overlap block the code assembles for the current bands
C_OC == "identity"

\* lines 143-173: eighg returns V_new orthonormal under the assembled
\* C_OC_new, whose blocks with Cexp are computed; C @ Vcur + Cexp @ Vexp is
\* orthonormal if the assembled current block is the overlap C has, and
\* otherwise it need not be
gram_expanded(gram, assembled) ==
    IF gram = assembled THEN {"identity"} ELSE {"identity", "other"}

\* no call under way: the locals of __call__ hold nothing yet
NoCall ==
    /\ arg_n_iterations = None
    /\ arg_eig_threshold = None
    /\ helper = FALSE
    /\ overridden = FALSE
    /\ n_iterations = 0
    /\ eig_threshold = 0
    /\ inner_loop = FALSE
    /\ C = 0
    /\ E = NoSpectrum
    /\ dE = NoSpectrum
    /\ Eband = [p \in Procs |-> 0]
    /\ n_eigs_done = [p \in Procs |-> 0]
    /\ deig_max = [p \in Procs |-> None]
    /\ converged = [p \in Procs |-> FALSE]
    /\ converge_failed = [p \in Procs |-> FALSE]
    /\ log = <<>>
    /\ n_apply = 0
    /\ H_applied = <<>>
    /\ C_rot = <<>>
    /\ HC_rot = <<>>
    /\ Cexp = 0
    /\ coll = [p \in Procs |-> <<>>]
    /\ result = [kind |-> "none"]

Init ==
    /\ n_bands \in 1..MaxBands
    /\ n_bands_extra \in 0..MaxExtra
    /\ n_min \in 1..MaxBasis
    /\ n_procs_b \in 1..NProcsB
    /\ self_n_iterations = MaxIter
    /\ self_eig_threshold = eig_threshold_default
    /\ electrons_C \in {Some(n) : n \in n_bands..n_bands_max}
    /\ electrons_E = None
    /\ C_gram \in {"identity", "other"}
    /\ pc = "idle"
    /\ i_iter = 0
    /\ NoCall
    /\ norm_measured = [q \in BProcs |-> [c \in Cells |-> nominal_norm]]
    /\ norm = norm_measured
    /\ low_norm = [q \in BProcs |-> {}]
    /\ randomized = [q \in BProcs |-> None]
    /\ Cexp_scale = [q \in BProcs |-> [c \in Cells |-> "unset"]]
    /\ reg_pc = [q \in BProcs |-> "idle"]

\* lines 100-107: bind the arguments and take C out of electrons
Call(a_n_iterations, a_eig_threshold, a_helper) ==
    /\ pc = "idle"
    /\ electrons_C # None
    /\ arg_n_iterations' = a_n_iterations
    /\ arg_eig_threshold' = a_eig_threshold
    /\ helper' = a_helper
    /\ overridden' = (a_n_iterations # None \/ a_eig_threshold # None)
    /\ C' = electrons_C[1]
    /\ electrons_C' = None
    /\ pc' = "called"
    /\ UNCHANGED <<config, electrons_E, n_iterations, eig_threshold,
                   inner_loop, E, dE, Eband, i_iter, n_eigs_done, deig_max,
                   converged, converge_failed, log, n_apply, algebra, Cexp,
                   result, coll, regularize>>

\* lines 108-116: resolve the overrides, then test the basis size
Resolve ==
    /\ pc = "called"
    /\ inner_loop' = ((Truthy(arg_n_iterations) \/ Truthy(arg_eig_threshold))
                        /\ ~helper)
    /\ n_iterations' = IF Truthy(arg_n_iterations) THEN arg_n_iterations[1]
                       ELSE self_n_iterations
    /\ eig_threshold' = IF Truthy(arg_eig_threshold) THEN arg_eig_threshold[1]
                        ELSE self_eig_threshold
    /\ IF basis_too_small
       THEN /\ pc' = "raised"
            /\ result' = [kind |-> "ValueError"]
       ELSE /\ pc' = "init"
            /\ UNCHANGED result
    \* lines 109-110 rebind the two names: the values as passed are gone
    /\ arg_n_iterations' = None
    /\ arg_eig_threshold' = None
    /\ UNCHANGED <<config, helper, overridden, electrons_C, electrons_E, C,
                   E, dE, Eband, i_iter, n_eigs_done, deig_max, converged, converge_failed,
                   log, n_apply, algebra, Cexp, coll, regularize>>

\* lines 117-123: apply the Hamiltonian, diagonalize the subspace, report
InitSubspace ==
    /\ pc = "init"
    /\ n_apply' = n_apply + 1
    /\ H_applied' = Append(H_applied, "C")
    /\ C_rot' = matmul(C_rot, "V")
    /\ HC_rot' = matmul(HC_rot, "V")
    /\ C_gram' = gram_rotated(C_gram)
    /\ coll' = [p \in Procs |-> get_Eband_collectives]
    /\ \E E0 \in eigh(C) :
        /\ E' = E0
        /\ Eband' = get_Eband(E0)
    /\ log' = log \o report(0, None, None, inner_loop, FALSE, FALSE)
    /\ n_eigs_done' = [p \in Procs |-> 0]
    /\ pc' = "loop"
    /\ UNCHANGED <<config, args, electrons_C, electrons_E, n_iterations,
                   eig_threshold, inner_loop, C, dE, i_iter, deig_max,
                   converged, converge_failed, result, Cexp, regularize>>

\* lines 125-191: one iteration of the loop
Iterate ==
    /\ pc = "loop"
    /\ \A p \in Procs : ~converged[p]
    /\ loop_continues
    /\ i_iter' = i_iter + 1
    /\ LET n_bands_cur == C
           n_bands_new == n_bands_cur + expansion_width
       IN
        /\ Cexp' = expansion_width
        /\ n_apply' = n_apply + 1
        /\ H_applied' = Append(H_applied, "Cexp")
        /\ C_rot' = add_matmul(matmul(C_rot, "Vcur"), "Cexp", "Vexp")
        /\ HC_rot' = add_matmul(matmul(HC_rot, "Vcur"), "HCexp", "Vexp")
        /\ C_gram' \in gram_expanded(C_gram, C_OC)
        /\ \E E_new \in eighg(n_bands_new,
                               Max2(n_bands_cur, n_bands_next(n_bands_new))) :
            /\ C' = n_bands_next(n_bands_new)
            /\ dE' = [p \in Procs |-> [r \in Rows |->
                        [b \in 1..n_bands_cur |->
                            Abs(E[p][r][b] - E_new[p][r][b])]]]
            /\ E' = [p \in Procs |-> [r \in Rows |->
                        E_next(E_new[p][r], n_bands_next(n_bands_new))]]
    /\ Eband' = get_Eband(E')
    /\ deig_max' = [p \in Procs |-> Some(check_deigs_max(dE')[p])]
    /\ n_eigs_done' = check_deigs_done(dE', eig_threshold)
    /\ converged' = [p \in Procs |-> n_eigs_done'[p] = n_bands]
    /\ converge_failed' = [p \in Procs |->
                            converge_failed_at(i_iter', converged'[p])]
    /\ log' = log \o report(i_iter', deig_max'[head], Some(n_eigs_done'[head]),
                            inner_loop, converged'[head], converge_failed'[head])
    /\ coll' = [p \in Procs |->
                regularize_collectives \o get_Eband_collectives
                    \o check_deigs_collectives(dE', eig_threshold, p)]
    /\ pc' = "loop"
    /\ UNCHANGED <<config, args, electrons_C, electrons_E, n_iterations,
                   eig_threshold, inner_loop, result, regularize>>

\* the exception caught and the loop carried on with the next iteration
IterateFails_retrying(e) ==
    /\ pc = "loop"
    /\ \A p \in Procs : ~converged[p]
    /\ loop_continues
    /\ i_iter' = i_iter + 1
    /\ coll' = [p \in Procs |-> regularize_collectives]
    /\ Cexp' = expansion_width
    /\ UNCHANGED <<pc, result, config, args, electrons_C, electrons_E,
                   n_iterations, eig_threshold, inner_loop, C, E, dE, Eband,
                   n_eigs_done, deig_max, converged, converge_failed, log,
                   n_apply, algebra, regularize>>

\* lines 125-166: an iteration in which the primitive e raises; the
\* statements behind the failing call do not run
IterateFails(e) ==
    /\ pc = "loop"
    /\ \A p \in Procs : ~converged[p]
    /\ loop_continues
    /\ i_iter' = i_iter + 1
    /\ coll' = [p \in Procs |-> regularize_collectives]
    /\ Cexp' = expansion_width
    /\ IF e = "eighg"
       THEN /\ n_apply' = n_apply + 1
            /\ H_applied' = Append(H_applied, "Cexp")
       ELSE UNCHANGED <<n_apply, H_applied>>
    /\ result' = propagated(e)
    /\ pc' = "failed"
    /\ UNCHANGED <<config, args, electrons_C, electrons_E, n_iterations,
                   eig_threshold, inner_loop, C, E, dE, Eband, n_eigs_done,
                   deig_max, converged, converge_failed, log, C_rot, HC_rot,
                   C_gram, regularize>>

\* a standalone call that raises when its budget ran out unconverged
Return_raising ==
    /\ pc = "loop"
    /\ \A p \in Procs : converged[p] \/ ~loop_continues
    /\ IF ~(inner_loop \/ helper \/ converged[head])
       THEN /\ result' = [kind |-> "RuntimeError"]
            /\ pc' = "raised"
            /\ UNCHANGED <<electrons_C, electrons_E>>
       ELSE /\ pc' = "done"
            /\ IF helper
               THEN /\ result' = [kind |-> "return", value |-> Some(<<E, C, C>>)]
                    /\ UNCHANGED <<electrons_C, electrons_E>>
               ELSE /\ electrons_C' = Some(C)
                    /\ electrons_E' = Some(E)
                    /\ result' = [kind |-> "return", value |-> None]
    /\ UNCHANGED <<config, args, n_iterations, eig_threshold, inner_loop, C,
                   E, dE, Eband, i_iter, n_eigs_done, deig_max, converged,
                   converge_failed, log, n_apply, algebra, Cexp, coll,
                   regularize>>

\* the results stored in electrons before the helper test
Return_storing_for_helper ==
    /\ pc = "loop"
    /\ \A p \in Procs : converged[p] \/ ~loop_continues
    /\ electrons_C' = Some(C)
    /\ electrons_E' = Some(E)
    /\ IF helper
       THEN result' = [kind |-> "return", value |-> Some(<<E, C, C>>)]
       ELSE result' = [kind |-> "return", value |-> None]
    /\ pc' = "done"
    /\ UNCHANGED <<config, args, n_iterations, eig_threshold, inner_loop, C,
                   E, dE, Eband, i_iter, n_eigs_done, deig_max, converged,
                   converge_failed, log, n_apply, algebra, Cexp, coll,
                   regularize>>

\* lines 193-199: the loop has ended (break, or range exhausted)
Return ==
    /\ pc = "loop"
    /\ \A p \in Procs : converged[p] \/ ~loop_continues
    /\ IF helper
       THEN /\ result' = [kind |-> "return", value |-> Some(<<E, C, C>>)]
            /\ UNCHANGED <<electrons_C, electrons_E>>
       ELSE /\ electrons_C' = Some(C)
            /\ electrons_E' = Some(E)
            /\ result' = [kind |-> "return", value |-> None]
    /\ pc' = "done"
    /\ UNCHANGED <<config, args, n_iterations, eig_threshold, inner_loop, C,
                   E, dE, Eband, i_iter, n_eigs_done, deig_max, converged,
                   converge_failed, log, n_apply, algebra, Cexp, coll,
                   regularize>>

Next ==
    \/ \E a \in Opt(0..(MaxIter - 1)), t \in Opt({0, MaxThreshold}),
          h \in BOOLEAN :
        Call(a, t, h)
    \/ Resolve
    \/ InitSubspace
    \/ Iterate
    \/ \E e \in Primitives : IterateFails(e)
    \/ Return

Spec == Init /\ [][Next]_vars

\* The call runs to completion once started: sequential code keeps stepping.
\* No guard and no control decision of the call reads the basis split or the
\* overlap of the block, so the fair behaviours are explored for one value of
\* each.
FairInit == Init /\ n_procs_b = 1 /\ C_gram = "identity"
FairSpec == FairInit /\ [][Next]_vars /\ WF_vars(Next)

\* ------------------------------------------------- _regularize on its own
\* One call of _regularize(Cexp, norm_exp, i_iter) followed by line 138, run
\* by every process of one basis-split group on the norms it computed.
RegInit ==
    /\ n_bands = 1
    /\ n_bands_extra = 0
    /\ n_min = MaxBasis
    /\ n_procs_b \in 1..NProcsB
    /\ self_n_iterations = MaxIter
    /\ self_eig_threshold = eig_threshold_default
    /\ electrons_C = None
    /\ electrons_E = None
    /\ C_gram = "identity"
    /\ pc = "regularize"
    /\ i_iter \in 1..MaxIter
    /\ NoCall
    /\ norm_measured \in
        {f \in [BProcs -> [Cells -> 0..MaxNorm]] :
            \A q \in BProcs, c \in Cells :
                Abs(f[q][c] - f[root][c]) <= NormSlack}
    /\ norm = norm_measured
    /\ low_norm = [q \in BProcs |-> {}]
    /\ randomized = [q \in BProcs |-> None]
    /\ Cexp_scale = [q \in BProcs |-> [c \in Cells |-> "unset"]]
    /\ reg_pc = [q \in BProcs |-> "entry"]

\* lines 68-70: the collective broadcast of norm over comm_b
RegBcast ==
    /\ pc = "regularize"
    /\ n_procs_b > 1
    /\ \A q \in BProcs : reg_pc[q] = "entry"
    /\ norm' = Bcast(norm)
    /\ reg_pc' = [q \in BProcs |-> "agreed"]
    /\ UNCHANGED <<davidson, pc, i_iter, norm_measured, low_norm, randomized,
                   Cexp_scale>>

\* every norm reset and every band randomized once one band is low
RegSelect_resetting_all(q) ==
    /\ pc = "regularize"
    /\ q \in BProcs
    /\ reg_pc[q] = (IF n_procs_b > 1 THEN "agreed" ELSE "entry")
    /\ LET low == where_low_norm(norm[q])
       IN
        /\ low_norm' = [low_norm EXCEPT ![q] = low]
        /\ IF low = {}
           THEN UNCHANGED <<randomized, norm>>
           ELSE /\ randomized' = [randomized EXCEPT
                                    ![q] = Some(<<Cells, i_iter>>)]
                /\ norm' = [norm EXCEPT ![q] =
                            [c \in Cells |-> nominal_norm]]
    /\ reg_pc' = [reg_pc EXCEPT ![q] = "regularized"]
    /\ UNCHANGED <<davidson, pc, i_iter, norm_measured, Cexp_scale>>

\* lines 71-78 on process q: select, return early or randomize and reset
RegSelect(q) ==
    /\ pc = "regularize"
    /\ q \in BProcs
    /\ reg_pc[q] = (IF n_procs_b > 1 THEN "agreed" ELSE "entry")
    /\ LET low == where_low_norm(norm[q])
       IN
        /\ low_norm' = [low_norm EXCEPT ![q] = low]
        /\ IF low = {}
           THEN UNCHANGED <<randomized, norm>>
           ELSE /\ randomized' = [randomized EXCEPT
                                    ![q] = Some(<<low, i_iter>>)]
                /\ norm' = [norm EXCEPT ![q] =
                            [c \in Cells |-> IF c \in low THEN nominal_norm
                                             ELSE norm[q][c]]]
    /\ reg_pc' = [reg_pc EXCEPT ![q] = "regularized"]
    /\ UNCHANGED <<davidson, pc, i_iter, norm_measured, Cexp_scale>>

\* line 138 on process q: Cexp *= 1/norm_exp
RegNormalize(q) ==
    /\ pc = "regularize"
    /\ q \in BProcs
    /\ reg_pc[q] = "regularized"
    /\ Cexp_scale' = [Cexp_scale EXCEPT
                        ![q] = [c \in Cells |-> reciprocal(norm[q][c])]]
    /\ reg_pc' = [reg_pc EXCEPT ![q] = "normalized"]
    /\ UNCHANGED <<davidson, pc, i_iter, norm_measured, norm, low_norm,
                   randomized>>

RegNext ==
    \/ RegBcast
    \/ \E q \in 1..NProcsB : RegSelect(q)
    \/ \E q \in 1..NProcsB : RegNormalize(q)

RegSpec == RegInit /\ [][RegNext]_vars
\* ===================================================================
\* Properties
\* ===================================================================
started == pc \in {"init", "loop", "done"}

\* C1: every call that passes the basis-size test terminates (it returns, or
\* an exception of an external primitive ends it); the loop runs
\* at most n_iterations (effective budget) iterations, each step of the loop
\* advances the iteration index by one, and the loop is left only with the
\* converged-count equal to n_bands or with the index at the budget.
C1_Terminates ==
    /\ [](started => i_iter <= n_iterations)
    /\ [](pc = "done" => (n_eigs_done[head] = n_bands \/ i_iter = n_iterations))
    /\ [][(pc = "loop" /\ pc' = "loop") => i_iter' = i_iter + 1]_vars
    /\ ((pc = "init") ~> (pc \in {"done", "failed"}))

\* a call that used up a budget of MaxIter iterations without converging
C1_Witness ==
    /\ pc = "done"
    /\ i_iter = n_iterations
    /\ i_iter = MaxIter
    /\ n_eigs_done[head] < n_bands

\* C2: when n_bands + n_bands_extra exceeds half the minimum basis size the
\* call ends with the ValueError, no Hamiltonian application, no iteration
\* and no log line have happened, and nothing further is run.
C2_RaisedBeforeAnyWork ==
    /\ (2 * (n_bands + n_bands_extra) > n_min /\ pc \notin {"idle", "called"})
            => pc = "raised"
    /\ pc = "raised" =>
            /\ result = [kind |-> "ValueError"]
            /\ n_apply = 0
            /\ i_iter = 0
            /\ log = <<>>
            /\ ~ENABLED Next

\* the error raised for a configuration above half the basis size
C2_Witness ==
    /\ pc = "raised"
    /\ 2 * (n_bands + n_bands_extra) > n_min

\* C3 (as claimed): the error is raised exactly when n_bands + n_bands_extra
\* exceeds n_min / 2; a configuration with 2 * (n_bands + n_bands_extra) =
\* n_min is accepted and proceeds to the initial subspace diagonalization.
C3_RaisedIffExceedsHalf ==
    pc \notin {"idle", "called"} =>
        ((pc = "raised") <=> (2 * (n_bands + n_bands_extra) > n_min))
\* the step taken is a loop iteration that follows an earlier one
later_iteration == pc = "loop" /\ i_iter >= 1 /\ i_iter' = i_iter + 1

\* C4 (as claimed): the converged-count of iteration i+1 is at least the one
\* of iteration i, whatever the eigenvalue changes are.
C4_CountNeverDecreases ==
    [][later_iteration =>
        \A p \in Procs : n_eigs_done'[p] >= n_eigs_done[p]]_vars

\* C4 (amended): the converged-count of iteration i+1 is at least the one of
\* iteration i whenever, at iteration i+1, no band below the earlier count
\* changes by more than eig_threshold on any partition and row.
C4_CountKeptWhileLowBandsStay ==
    [][(later_iteration
        /\ \A p \in Procs, r \in Rows, b \in 1..n_eigs_done[head] :
                dE'[p][r][b] <= eig_threshold)
        => \A p \in Procs : n_eigs_done'[p] >= n_eigs_done[p]]_vars

\* a second iteration that counts a band whose change is exactly the threshold
C4_Witness ==
    /\ i_iter = 2
    /\ n_bands = 2
    /\ n_eigs_done[head] = 1
    /\ \E p \in Procs, r \in Rows : dE[p][r][1] = eig_threshold

\* C5: after the initial subspace diagonalization and after every iteration
\* C (with HC) and E hold the same number of bands, at most n_bands_max; an
\* iteration that completes leaves
\* min(n_bands_cur + width of the expansion, n_bands_max).
C5_BandCountBound ==
    /\ [](pc \in {"loop", "done"} =>
            /\ C <= n_bands_max
            /\ \A p \in Procs, r \in Rows : Len(E[p][r]) = C)
    /\ [][(pc = "loop" /\ pc' = "loop" /\ i_iter' = i_iter + 1) =>
            C' = Min2(C + (C - n_eigs_done[head]), n_bands + n_bands_extra)]_vars

\* an iteration whose expanded block was cut back to n_bands_max
C5_Witness ==
    /\ pc = "loop"
    /\ i_iter = 2
    /\ n_eigs_done[head] = 0
    /\ C = n_bands_max
    /\ n_bands_extra = 1

\* the eigenvalue changes of the requested bands, over partitions and rows
requested_changes ==
    {dE[p][r][b] : p \in Procs, r \in Rows, b \in 1..n_bands}

ended_converged == pc = "done" /\ converged[head]

\* C6 (as claimed): a call that ends converged has every one of the first
\* n_bands eigenvalues changed by strictly less than eig_threshold.
C6_ConvergedStrictlyBelow ==
    ended_converged => \A x \in requested_changes : x < eig_threshold

\* C6 (amended): a call that ends converged has every one of the first
\* n_bands eigenvalues, on every partition and row, changed by at most
\* eig_threshold in its last iteration.
C6_ConvergedAtMost ==
    ended_converged => \A x \in requested_changes : x <= eig_threshold

\* a converged call with a change exactly at the threshold
C6_Witness ==
    /\ ended_converged
    /\ eig_threshold \in requested_changes

\* C7: every partition holds the same n_eigs_done; it is at most n_bands, no
\* band below it is pending on any partition or row, and when it is below
\* n_bands the band at it is pending somewhere (the minimum of the
\* partitions' lowest pending indices).
C7_ConservativeCount ==
    (pc \in {"loop", "done"} /\ i_iter >= 1) =>
        LET n == n_eigs_done[head] IN
        /\ \A p \in Procs : n_eigs_done[p] = n
        /\ n \in 0..n_bands
        /\ \A p \in Procs, r \in Rows, b \in 1..n :
                dE[p][r][b] <= eig_threshold
        /\ n < n_bands =>
                \E p \in Procs, r \in Rows : dE[p][r][n + 1] > eig_threshold

\* partitions whose lowest pending bands differ
C7_Witness ==
    /\ pc = "loop"
    /\ i_iter >= 1
    /\ \E p, q \in Procs :
        /\ \E r \in Rows : dE[p][r][1] > eig_threshold
        /\ \A r \in Rows : dE[q][r][1] <= eig_threshold
        /\ n_eigs_done[q] = 0

\* C8: deig_max is, on every partition, the largest change among the first
\* n_bands bands over all partitions and rows; the changes of the bands from
\* n_bands on enter neither deig_max nor the converged-count.
C8_DeigMaxOverRequestedBands ==
    (pc \in {"loop", "done"} /\ i_iter >= 1) =>
        /\ \A p \in Procs :
            /\ deig_max[p] # None
            /\ deig_max[p][1] \in requested_changes
            /\ \A x \in requested_changes : x <= deig_max[p][1]
        /\ (\A x \in requested_changes : x <= eig_threshold)
                => n_eigs_done[head] = n_bands

\* a buffer band that changed by more than deig_max and the threshold
C8_Witness ==
    /\ pc = "done"
    /\ converged[head]
    /\ \E p \in Procs, r \in Rows :
        /\ Len(dE[p][r]) > n_bands
        /\ dE[p][r][n_bands + 1] > deig_max[head][1]
        /\ dE[p][r][n_bands + 1] > eig_threshold

budget_exhausted == i_iter >= 1 /\ i_iter = n_iterations /\ ~converged[head]

\* C9: once the Hamiltonian has been applied the call raises no error of
\* its own (only a primitive's exception can end it otherwise); with
\* the budget used up unconverged it can return, and having returned it has
\* handed back the latest C and E: as (E, C, HC) from a helper, and in
\* electrons.C and electrons.E otherwise.
C9_ExhaustionReturns ==
    /\ n_apply >= 1 => result.kind \in {"none", "return", "PrimitiveError"}
    /\ (pc = "loop" /\ budget_exhausted) => ENABLED Return
    /\ (pc = "done" /\ budget_exhausted) =>
        /\ result.kind = "return"
        /\ C >= n_bands
        /\ \A p \in Procs, r \in Rows : Len(E[p][r]) = C
        /\ IF helper
           THEN result.value = Some(<<E, C, C>>)
           ELSE electrons_C = Some(C) /\ electrons_E = Some(E)

\* a standalone call of the constructor's budget that returned unconverged
C9_Witness ==
    /\ pc = "done"
    /\ budget_exhausted
    /\ ~helper
    /\ ~inner_loop
    /\ electrons_C = Some(C)

CountLines(kind) == Cardinality({i \in 1..Len(log) : log[i].kind = kind})

\* C10 (as claimed): in every mode a call that ends converged has logged
\* exactly one Converged line and a call that ends with its budget used up
\* unconverged has logged exactly one Failed to converge line.
C10_OutcomeAlwaysLogged ==
    pc = "done" =>
        /\ converged[head] => CountLines("Converged") = 1
        /\ ~converged[head] => CountLines("Failed to converge") = 1

\* C10 (amended): a call that ends converged has logged exactly one Converged
\* line in every mode; a call that ends with its budget used up unconverged
\* has logged exactly one Failed to converge line when it is standalone
\* (not a helper, no truthy override) and none when it is an inner-loop or
\* helper call.
C10_OutcomeLoggedWhenStandalone ==
    pc = "done" =>
        /\ converged[head] => CountLines("Converged") = 1
        /\ ~converged[head] =>
            CountLines("Failed to converge")
                = (IF inner_loop \/ helper THEN 0 ELSE 1)

\* a standalone call that used up two iterations unconverged
C10_Witness ==
    /\ pc = "done"
    /\ ~converged[head]
    /\ ~inner_loop
    /\ ~helper
    /\ i_iter = 2
    /\ CountLines("Failed to converge") = 1
is_progress(line) == line.kind = "progress"
progress_lines == SelectSeq(log, is_progress)

\* C11: a call that has run k loop iterations has logged exactly k + 1
\* progress lines, with the iteration indices 0, 1, ..., k in that order.
C11_OneProgressLinePerIteration ==
    pc \in {"loop", "done"} =>
        /\ Len(progress_lines) = i_iter + 1
        /\ \A k \in 1..Len(progress_lines) : progress_lines[k].iteration = k - 1

\* a call that ended after two iterations and has logged the lines 0, 1, 2
C11_Witness ==
    /\ pc = "done"
    /\ i_iter = 2
    /\ Len(progress_lines) = 3

\* C12 (as claimed): the progress line of every iteration i >= 1 holds the
\* iteration index, the band energy, the largest eigenvalue change and the
\* converged-count, whatever their values are.
C12_ProgressLineComplete ==
    \A k \in 1..Len(log) :
        (is_progress(log[k]) /\ log[k].iteration >= 1) =>
            {"iteration", "Eband", "deig_max", "n_eigs_done"}
                \subseteq log[k].fields

\* C16: electrons.C is None exactly while a call is in progress or has
\* ended without storing; a call that is no helper and returns has stored the
\* final C and E in electrons.C and electrons.E and returns None; a helper
\* call returns (E, C, HC), leaves electrons.C None and electrons.E as it was.
C16_ResultHandOff ==
    /\ pc = "idle" => electrons_C # None
    /\ pc \in {"called", "init", "loop"} => electrons_C = None
    /\ (pc = "done" /\ ~helper) =>
        /\ electrons_C = Some(C)
        /\ electrons_E = Some(E)
        /\ result = [kind |-> "return", value |-> None]
    /\ (pc = "done" /\ helper) =>
        /\ result = [kind |-> "return", value |-> Some(<<E, C, C>>)]
        /\ electrons_C = None
        /\ electrons_E = None

\* a helper call that returned its triple after an iteration
C16_Witness ==
    /\ pc = "done"
    /\ helper
    /\ i_iter >= 1
    /\ result.kind = "return"
    /\ result.value # None
    /\ electrons_C = None
\* the operations a block has seen after the initial step and k iterations
\* with the expansion block Y
rotations(k, Y) ==
    LET step[j \in 0..k] ==
            IF j = 0 THEN <<<<"@", "V">>>>
            ELSE step[j - 1] \o <<<<"@", "Vcur">>, <<"+=", Y, "Vexp">>>>
    IN step[k]

\* C13: the Hamiltonian is applied once to the initial block and once per
\* iteration to Cexp only, and C and HC see the same rotations with the same
\* matrices: C@V and HC@V, then C@Vcur + Cexp@Vexp and HC@Vcur + HCexp@Vexp
\* with HCexp the image of Cexp.
C13_ImageFollowsBlock ==
    pc \in {"loop", "done"} =>
        /\ n_apply = i_iter + 1
        /\ H_applied = <<"C">> \o [k \in 1..i_iter |-> "Cexp"]
        /\ C_rot = rotations(i_iter, "Cexp")
        /\ HC_rot = rotations(i_iter, "HCexp")

\* a call that returned after two iterations: three applications
C13_Witness ==
    /\ pc = "done"
    /\ i_iter = 2
    /\ n_apply = 3
    /\ Len(HC_rot) = 5

\* C14 (as claimed): whatever the overlap of the initial block, C is
\* orthonormal after the initial subspace diagonalization, before the first
\* iteration.
C14_InitialStepOrthonormalizes ==
    (pc = "loop" /\ i_iter = 0) => C_gram = "identity"

norm_thresholded(q, c) ==
    IF n_procs_b > 1 THEN norm_measured[root][c] ELSE norm_measured[q][c]

regularize_left(q) == reg_pc[q] \in {"regularized", "normalized"}

\* C17: after _regularize every entry whose norm was below _norm_cut at the
\* test of line 71 has been randomized and has the recorded norm 1.0; every
\* recorded norm is then at least _norm_cut > 0, and the normalization of
\* line 138 divides by no zero.
C17_LowNormBandsRegularized ==
    \A q \in BProcs :
        /\ regularize_left(q) =>
            \A c \in Cells :
                /\ norm_cut > 0
                /\ norm[q][c] >= norm_cut
                /\ norm_thresholded(q, c) < norm_cut =>
                    /\ c \in low_norm[q]
                    /\ randomized[q] # None
                    /\ c \in randomized[q][1][1]
                    /\ norm[q][c] = nominal_norm
        /\ reg_pc[q] = "normalized" =>
            \A c \in Cells : Cexp_scale[q][c] = "finite"

\* a zero-norm band that was randomized and then normalized
C17_Witness ==
    \E q \in BProcs, c \in Cells :
        /\ reg_pc[q] = "normalized"
        /\ norm_measured[q][c] = 0
        /\ c \in low_norm[q]
        /\ Cexp_scale[q][c] = "finite"

\* C18: the processes of one basis-split group select the same entries and
\* randomize them with the same seed, the iteration index, whatever norms
\* they computed themselves; the selection depends on the root's norms and
\* the iteration index alone.
C18_SelectionAgreed ==
    \A p, q \in BProcs :
        (regularize_left(p) /\ regularize_left(q)) =>
            /\ low_norm[p] = low_norm[q]
            /\ randomized[p] = randomized[q]
            /\ randomized[q] # None => randomized[q][1][2] = i_iter
            /\ low_norm[q] = {c \in Cells : norm_measured[root][c] < norm_cut}

\* two processes whose own norms lie on either side of the threshold
C18_Witness ==
    /\ n_procs_b > 1
    /\ \A q \in BProcs : regularize_left(q)
    /\ \E c \in Cells :
        /\ norm_measured[1][c] < norm_cut
        /\ norm_measured[2][c] >= norm_cut
        /\ c \in low_norm[2]

\* C19: the partitions take the break/continue decision alike, so that the
\* loop can always go on or return, and in every step each partition issues
\* the same collectives in the same order whatever its local data: the norm
\* broadcast if the basis is split, the SUM of _get_Eband, the MAX and the MIN
\* of _check_deigs.
C19_LockStep ==
    /\ \A p, q \in Procs :
        /\ coll[p] = coll[q]
        /\ converged[p] = converged[q]
        /\ n_eigs_done[p] = n_eigs_done[q]
    /\ pc = "loop" => (ENABLED Iterate \/ ENABLED Return)
    /\ (pc = "loop" /\ i_iter >= 1) =>
        coll[head] = regularize_collectives \o <<"SUM", "MAX", "MIN">>

\* a split basis, one partition with a pending eigenvalue and one without
C19_Witness ==
    /\ pc = "loop"
    /\ i_iter >= 1
    /\ n_procs_b > 1
    /\ eigs_pending(dE, eig_threshold, 1) = {}
    /\ eigs_pending(dE, eig_threshold, 2) # {}
    /\ coll[1] = <<"Bcast", "SUM", "MAX", "MIN">>

\* C20: an exception of the Hamiltonian application or of eighg inside an
\* iteration ends the call with that exception; nothing runs afterwards, the
\* failed iteration has no progress line and no outcome line, and an
\* iteration that logs nothing is never followed by another one.
C20_PrimitiveFailurePropagates ==
    /\ [](pc = "failed" =>
            /\ result.kind = "PrimitiveError"
            /\ result.error \in Primitives
            /\ ~ENABLED Next
            /\ Len(progress_lines) = i_iter
            /\ progress_lines[Len(progress_lines)].iteration = i_iter - 1
            /\ CountLines("Converged") = 0
            /\ CountLines("Failed to converge") = 0
            /\ electrons_C = None
            /\ electrons_E = None)
    /\ [][(pc = "loop" /\ i_iter' = i_iter + 1 /\ log' = log) =>
            (pc' = "failed" /\ result'.kind = "PrimitiveError")]_vars

\* eighg failing in the second iteration
C20_Witness ==
    /\ pc = "failed"
    /\ i_iter = 2
    /\ result.error = "eighg"
    /\ n_apply = 3
\* C24: the band energy every partition holds after the initial step and
\* after each iteration is the sum, over all partitions and their (spin, k)
\* rows, of w_spin * wk * E over the first n_bands bands only; it is the same
\* number on every partition.
C24_EbandWeightedSumOfRequestedBands ==
    pc \in {"loop", "done"} =>
        \A p \in Procs :
            /\ Eband[p] = Eband[head]
            /\ Eband[p] =
                SumOver(Procs, [q \in Procs |->
                    SumOver(Rows, [r \in Rows |->
                        w_spin * wk(q, r)
                            * SumOver(1..n_bands, [b \in 1..n_bands |->
                                                    E[q][r][b]])])])

\* an extra band with a non-zero eigenvalue, on partitions that differ
C24_Witness ==
    /\ pc = "loop"
    /\ i_iter >= 1
    /\ C > n_bands
    /\ E[1][1][C] > 0
    /\ E[1] # E[2]

\* C26 (as claimed): when the call raises the configuration error,
\* electrons.C still holds the block it held before the call.
C26_BlockKeptOnError ==
    pc = "raised" => electrons_C = Some(C)

\* C27 (as claimed): the budget and the threshold of a call are the overrides
\* when given, zero included, and the constructor's values otherwise; the
\* call is an inner-loop call exactly when an override was given and helper
\* is false.
C27_OverridesHonoured ==
    [][pc = "called" =>
        /\ n_iterations' = IF arg_n_iterations # None THEN arg_n_iterations[1]
                           ELSE self_n_iterations
        /\ eig_threshold' = IF arg_eig_threshold # None
                            THEN arg_eig_threshold[1]
                            ELSE self_eig_threshold
        /\ inner_loop' = ((arg_n_iterations # None \/ arg_eig_threshold # None)
                            /\ ~helper)]_vars

\* C29: once _check_deigs has run, on every partition the converged-count is
\* between 0 and n_bands, and it equals n_bands exactly when the largest
\* change it reports is at most eig_threshold.
C29_CheckDeigsOutputsAgree ==
    \A p \in Procs :
        deig_max[p] # None =>
            /\ 0 <= n_eigs_done[p]
            /\ n_eigs_done[p] <= n_bands
            /\ (n_eigs_done[p] = n_bands) <=> (deig_max[p][1] <= eig_threshold)

\* a largest change equal to the threshold, reached on one partition only
C29_Witness ==
    /\ pc = "loop"
    /\ i_iter >= 1
    /\ deig_max[head] = Some(eig_threshold)
    /\ n_eigs_done[head] = n_bands
    /\ deig_max_local(dE, 1) # deig_max_local(dE, 2)

outcome_lines ==
    {k \in 1..Len(log) : log[k].kind \in {"Converged", "Failed to converge"}}

\* C30: a call logs at most one outcome line; it is the last line of the
\* log and follows the progress line of the latest iteration; once it is
\* logged no further line is logged and the operator is not applied again.
C30_OutcomeExclusiveAndFinal ==
    /\ [](Cardinality(outcome_lines) <= 1)
    /\ [](outcome_lines # {} =>
            /\ i_iter >= 1
            /\ outcome_lines = {Len(log)}
            /\ is_progress(log[Len(log) - 1])
            /\ log[Len(log) - 1].iteration = i_iter
            /\ ~ENABLED Iterate)
    /\ [][outcome_lines # {} => (log' = log /\ n_apply' = n_apply)]_vars

\* a call that converged at the last iteration of its budget and returned
C30_Witness ==
    /\ pc = "done"
    /\ i_iter = n_iterations
    /\ converged[head]
    /\ ~inner_loop
    /\ ~helper
    /\ log[Len(log)].kind = "Converged"
iteration_step == pc = "loop" /\ i_iter' = i_iter + 1

\* C21 (as claimed): the width of Cexp never grows from one iteration to the
\* next within a call.
C21_WidthNeverGrows ==
    [][(iteration_step /\ i_iter >= 1) => Cexp' <= Cexp]_vars

\* C21: the width of Cexp in an iteration is n_bands_cur minus the
\* converged-count of the iteration before, between 1 and n_bands_cur; it
\* does not grow from one iteration to the next when the block did not grow
\* in the earlier one and the converged-count did not drop.
C21_WidthIsUnconvergedCount ==
    [][iteration_step =>
        /\ Cexp' = C - n_eigs_done[head]
        /\ Cexp' >= 1
        /\ Cexp' <= C
        /\ (/\ i_iter >= 1
            /\ C = Len(dE[head][1])
            /\ n_eigs_done[head] >= Len(dE[head][1]) - Cexp) => Cexp' <= Cexp]_vars

\* a second iteration that expanded the one band still unconverged
C21_Witness ==
    /\ pc = "loop"
    /\ i_iter = 2
    /\ Len(dE[head][1]) = 2
    /\ Cexp = 1

\* C28: whenever an iteration is due, the expanded problem has at least
\* n_bands_cur + 1 and fewer than n_min bands, and every expansion block
\* built had at least one band.
C28_SubspaceSizeWellPosed ==
    /\ (pc = "loop" /\ loop_continues /\ \A p \in Procs : ~converged[p]) =>
        LET n_bands_new == C + (C - n_eigs_done[head])
        IN  /\ n_bands_new >= C + 1
            /\ n_bands_new < n_min
    /\ (pc \in {"loop", "done", "failed"} /\ i_iter >= 1) =>
        (Cexp >= 1 /\ Len(dE[head][1]) + Cexp < n_min)

\* an iteration due on a full block with one band converged
C28_Witness ==
    /\ pc = "loop"
    /\ i_iter = 1
    /\ loop_continues
    /\ C = n_bands_max
    /\ C = 2
    /\ n_eigs_done[head] = 1
ascending(seq) == \A i, j \in 1..Len(seq) : i < j => seq[i] <= seq[j]

C25_OnlyLowNormBandsChanged ==
    \A q \in BProcs :
        regularize_left(q) =>
            /\ \A c \in Cells :
                norm_thresholded(q, c) >= norm_cut =>
                    /\ norm[q][c] = norm_thresholded(q, c)
                    /\ c \notin low_norm[q]
                    /\ randomized[q] # None => c \notin randomized[q][1][1]
            /\ (\A c \in Cells : norm_thresholded(q, c) >= norm_cut) =>
                /\ randomized[q] = None
                /\ low_norm[q] = {}

\* one band randomized next to a band that kept a norm other than 1.0
C25_Witness ==
    \E q \in BProcs, c, k \in Cells :
        /\ regularize_left(q)
        /\ c \in low_norm[q]
        /\ k \notin low_norm[q]
        /\ norm[q][k] # nominal_norm
        /\ norm[q][k] = norm_measured[q][k]
failed_lines == CountLines("Failed to converge")

\* C23 (as claimed): a call that ends logs the 'Failed to converge' line,
\* once and as its last line, exactly when no override was passed, helper is
\* false and the budget ran out with the converged-count below n_bands; a
\* call with an override or a helper call never logs it.
C23_FailedExactlyWhenStandalone ==
    /\ (overridden \/ helper) => failed_lines = 0
    /\ pc = "done" =>
        ((~overridden /\ ~helper /\ budget_exhausted)
            <=> (failed_lines = 1 /\ log[Len(log)].kind = "Failed to converge"))
====
